---------------------------- MODULE Spec2Model ----------------------------
(***************************************************************************)
(* Student-record store of server.js and its helpers of utils.js           *)
(* (src/unnamed/part_000).                                                 *)
(*                                                                         *)
(* Strings are sequences of one-character strings, so that trimming,       *)
(* whitespace collapsing, stripping, lower-casing and date parsing are     *)
(* computed character by character as the JavaScript does.                 *)
(*                                                                         *)
(* A character outside ASCII is written by its code point, "U+00A0".  The  *)
(* characters of the model are ASCII, the Latin-1 letters, the whitespace  *)
(* of ECMAScript, the signs U+212A, U+212B, U+2126 and U+0130, and the     *)
(* high surrogate U+D800, which nothing in the model can pair.             *)
(*                                                                         *)
(* A value of a request body that is not a string is the sequence of a     *)
(* type tag, "#number" or "#array", and the characters of String(value);   *)
(* or the tag "#object" alone, for an object such as {"toString": 1}       *)
(* whose conversion to a string throws.                                    *)
(*                                                                         *)
(* The clock is Today 00:00:00.000 UTC plus some milliseconds; the process *)
(* time zone is taken to be UTC.  A request reads the clock several times, *)
(* and the clock may advance between two reads.                            *)
(***************************************************************************)
EXTENDS Integers, Sequences, FiniteSets

VARIABLES
    students,   \* the collection: let students = [...]
    now,        \* the last reading of the clock, in ms since Today's midnight
    nreq,       \* requests handled so far
    last,       \* history: the last request and its outcome
    prev,       \* history: the collection before the last request
    issued,     \* history: the ids generateStudentId has returned, in order
    sanIn,      \* sanitizer run: the input
    sanOut,     \* sanitizer run: the result
    sanPc       \* sanitizer run: "idle", "ready" or "done"

vars == <<students, now, nreq, last, prev, issued, sanIn, sanOut, sanPc>>

storeVars == <<students, now, nreq, last, prev, issued>>

sanVars == <<sanIn, sanOut, sanPc>>

---------------------------------------------------------------------------
(* Bounds of the model *)

\* requests handled in one run
MaxRequests == 3

\* milliseconds the clock may advance
MaxTick == 1

\* number of distinct values Math.random() may return
MaxRand == 2

\* length of the generated inputs of the sanitizer runs
MaxSanLen == 4

---------------------------------------------------------------------------
(* Characters and strings *)

Min(a, b) == IF a < b THEN a ELSE b

\* JavaScript's undefined for an optional timestamp; a set timestamp is <<t>>
Undefined == <<>>

\* the characters \s matches and String.prototype.trim removes:
\* WhiteSpace and LineTerminator of ECMAScript
WhiteSpace ==
    {" ", "\t", "\n", "\r", "\f",
       "U+000B","U+00A0","U+1680","U+2000","U+2001","U+2002",
       "U+2003","U+2004","U+2005","U+2006","U+2007","U+2008",
       "U+2009","U+200A","U+2028","U+2029","U+202F","U+205F",
       "U+3000","U+FEFF"}

DangerousChars == {"<", ">", "\"", "'", "&"}

UpperCase == <<"A","B","C","D","E","F","G","H","I","J","K","L","M",
               "N","O","P","Q","R","S","T","U","V","W","X","Y","Z">>

LowerCase == <<"a","b","c","d","e","f","g","h","i","j","k","l","m",
               "n","o","p","q","r","s","t","u","v","w","x","y","z">>

Digits == <<"0","1","2","3","4","5","6","7","8","9">>

DigitMap == [c \in {Digits[i] : i \in 1..10} |->
                (CHOOSE i \in 1..10 : Digits[i] = c) - 1]

IsDigit(c) == c \in DOMAIN DigitMap

DigitVal(c) == DigitMap[c]

\* U+00C0..U+00DE without the multiplication sign U+00D7
UpperLatin1 == <<"U+00C0","U+00C1","U+00C2","U+00C3","U+00C4","U+00C5",
                 "U+00C6","U+00C7","U+00C8","U+00C9","U+00CA","U+00CB",
                 "U+00CC","U+00CD","U+00CE","U+00CF","U+00D0","U+00D1",
                 "U+00D2","U+00D3","U+00D4","U+00D5","U+00D6","U+00D8",
                 "U+00D9","U+00DA","U+00DB","U+00DC","U+00DD","U+00DE">>

\* U+00E0..U+00FE without the division sign U+00F7
LowerLatin1 == <<"U+00E0","U+00E1","U+00E2","U+00E3","U+00E4","U+00E5",
                 "U+00E6","U+00E7","U+00E8","U+00E9","U+00EA","U+00EB",
                 "U+00EC","U+00ED","U+00EE","U+00EF","U+00F0","U+00F1",
                 "U+00F2","U+00F3","U+00F4","U+00F5","U+00F6","U+00F8",
                 "U+00F9","U+00FA","U+00FB","U+00FC","U+00FD","U+00FE">>

\* the Kelvin, Angstrom and Ohm signs and what they lower-case to
UpperSigns == <<"U+212A", "U+212B", "U+2126">>

LowerSigns == <<"k", "U+00E5", "U+03C9">>

AllUpper == UpperCase \o UpperLatin1 \o UpperSigns

AllLower == LowerCase \o LowerLatin1 \o LowerSigns

LowerMap == [c \in {AllUpper[i] : i \in 1..Len(AllUpper)} |->
                AllLower[CHOOSE i \in 1..Len(AllUpper) : AllUpper[i] = c]]

\* the one character of the model that lower-cases to two: capital I with
\* dot above becomes i followed by the combining dot above
DottedCapitalI == "U+0130"

charToLower(c) ==
    IF c = DottedCapitalI THEN <<"i", "U+0307">>
    ELSE IF c \in DOMAIN LowerMap THEN <<LowerMap[c]>>
    ELSE <<c>>

RECURSIVE lowerEach(_)
lowerEach(s) ==
    IF s = <<>> THEN <<>> ELSE charToLower(Head(s)) \o lowerEach(Tail(s))

\* String.prototype.toLowerCase
toLowerCase(s) ==
    IF \E i \in 1..Len(s) : s[i] = DottedCapitalI
    THEN lowerEach(s)
    ELSE [i \in 1..Len(s) |-> charToLower(s[i])[1]]

\* a high surrogate; the model has no low surrogate to follow it
Surrogate == "U+D800"

TypeTags == {"#number", "#array", "#object"}

\* typeof v === 'string'
isString(v) == v = <<>> \/ Head(v) \notin TypeTags

\* String(v): of a number its digits, of an array of one string that string
toStr(v) == IF isString(v) THEN v ELSE Tail(v)

\* String(v) throws a TypeError: an object whose own toString is not
\* callable, neither toString nor valueOf gives a primitive
toStrThrows(v) == ~ isString(v) /\ Head(v) = "#object"

\* !v is false: a non-empty string, a number other than 0, any array, any
\* object
truthy(v) ==
    IF isString(v) THEN v # <<>>
    ELSE IF Head(v) = "#number" THEN \E i \in 2..Len(v) : v[i] # "0"
    ELSE TRUE

RECURSIVE trimStart(_)
trimStart(s) ==
    IF s # <<>> /\ Head(s) \in WhiteSpace THEN trimStart(Tail(s)) ELSE s

RECURSIVE trimEnd(_)
trimEnd(s) ==
    IF s # <<>> /\ s[Len(s)] \in WhiteSpace
    THEN trimEnd(SubSeq(s, 1, Len(s) - 1))
    ELSE s

\* String.prototype.trim
trim(s) == trimEnd(trimStart(s))

\* .replace(/\s+/g, ' '): every maximal run of whitespace becomes one space
RECURSIVE collapseWhitespace(_)
collapseWhitespace(s) ==
    IF s = <<>> THEN <<>>
    ELSE IF Head(s) \in WhiteSpace
         THEN <<" ">> \o collapseWhitespace(trimStart(s))
         ELSE <<Head(s)>> \o collapseWhitespace(Tail(s))

IsDangerous(c) == c \in DangerousChars

IsSafe(c) == c \notin DangerousChars

\* .replace(/[<>\"'&]/g, ''): the dangerous characters are removed
stripDangerous(s) == SelectSeq(s, IsSafe)

\* /[<>\"'&]/.test(s)
hasDangerous(s) == \E i \in 1..Len(s) : IsDangerous(s[i])

RECURSIVE Repeat(_, _)
Repeat(c, n) == IF n <= 0 THEN <<>> ELSE <<c>> \o Repeat(c, n - 1)

---------------------------------------------------------------------------
(* utils.js *)

MinNameLen == 2

MaxNameLen == 50

MaxAgeYears == 150

\* isValidName without the lower bound on the length
isValidNameNoMinimum(name) ==
    LET trimmedName == trim(name)
    IN  /\ truthy(name) /\ isString(name)
        /\ ~ (Len(trimmedName) > MaxNameLen)
        /\ ~ hasDangerous(trimmedName)

isValidName(name) ==
    LET trimmedName == trim(name)
    IN  /\ truthy(name) /\ isString(name)
        /\ ~ (Len(trimmedName) < MinNameLen \/ Len(trimmedName) > MaxNameLen)
        /\ ~ hasDangerous(trimmedName)

\* sanitizeName without the .replace(/\s+/g, ' ') step
sanitizeNameNoCollapse(name) ==
    IF ~ truthy(name) \/ ~ isString(name) THEN <<>>
    ELSE LET t == stripDangerous(trim(name))
         IN  SubSeq(t, 1, Min(MaxNameLen, Len(t)))

sanitizeName(name) ==
    IF ~ truthy(name) \/ ~ isString(name) THEN <<>>
    ELSE LET t == stripDangerous(collapseWhitespace(trim(name)))
         IN  SubSeq(t, 1, Min(MaxNameLen, Len(t)))

\* Days from 1970-01-01 to the first of month m of year y (proleptic
\* Gregorian calendar), plus d - 1: a day past the month's end rolls over,
\* as the engine's MakeDay does.
dayNumber(y, m, d) ==
    LET yy  == IF m <= 2 THEN y - 1 ELSE y
        era == yy \div 400
        yoe == yy - era * 400
        mp  == IF m > 2 THEN m - 3 ELSE m + 9
        doy == (153 * mp + 2) \div 5
        doe == yoe * 365 + yoe \div 4 - yoe \div 100 + doy
    IN  era * 146097 + doe - 719468 + (d - 1)

\* /^\d{4}-\d{2}-\d{2}$/.test(s)
matchesDateRegex(s) ==
    /\ Len(s) = 10
    /\ \A i \in {1, 2, 3, 4, 6, 7, 9, 10} : IsDigit(s[i])
    /\ s[5] = "-"
    /\ s[8] = "-"

yearOf(s) == DigitVal(s[1]) * 1000 + DigitVal(s[2]) * 100
             + DigitVal(s[3]) * 10 + DigitVal(s[4])

monthOf(s) == DigitVal(s[6]) * 10 + DigitVal(s[7])

dayOf(s) == DigitVal(s[9]) * 10 + DigitVal(s[10])

\* new Date("YYYY-MM-DD") is a date (not NaN): month 1..12, day 1..31
parsesAsDate(s) ==
    /\ monthOf(s) \in 1..12
    /\ dayOf(s) \in 1..31

\* new Date("YYYY-MM-DD"), in days since the epoch (UTC midnight of the day)
parseDay(s) == dayNumber(yearOf(s), monthOf(s), dayOf(s))

\* The day the process runs: <<year, month, day>>
Today == <<2026, 10, 29>>

todayDay == dayNumber(Today[1], Today[2], Today[3])

\* minDate.setFullYear(today.getFullYear() - 150), same time of day
minDay == dayNumber(Today[1] - MaxAgeYears, Today[2], Today[3])

\* dateRegex.test(dateString) converts dateString to a string, and throws
\* when the conversion does
birthThrows(dateString) == truthy(dateString) /\ toStrThrows(dateString)

\* Whether isValidBirthDate returns true; it does not when it throws.
\* tToday, tMin: what new Date() reads for today and for minDate, in
\* milliseconds since Today's midnight.  The regex and the Date constructor
\* take String(dateString).  date > today compares a midnight with an
\* instant of Today, so only the day of tToday counts.
isValidBirthDate(dateString, tToday, tMin) ==
    LET str == toStr(dateString)
    IN  /\ truthy(dateString)
        /\ ~ toStrThrows(dateString)
        /\ matchesDateRegex(str)
        /\ parsesAsDate(str)
        /\ ~ (parseDay(str) > todayDay + tToday \div 86400000)
        /\ ~ (\/ parseDay(str) < minDay
              \/ parseDay(str) = minDay /\ tMin > 0)

\* how many times isValidBirthDate reads the clock: not before the regex
\* has matched, for today then; for minDate once the date is a date and
\* not in the future
birthDateReads(dateString, tToday) ==
    LET str == toStr(dateString)
    IN  IF ~ truthy(dateString) \/ toStrThrows(dateString)
           \/ ~ matchesDateRegex(str) THEN 0
        ELSE IF ~ parsesAsDate(str)
                \/ parseDay(str) > todayDay + tToday \div 86400000 THEN 1
        ELSE 2

\* Date.now().toString(36) + Math.random().toString(36).substr(2): the
\* clock reading followed by the random draw r.  (The seeded ids have one
\* component, a generated id has two: they never coincide.)
generateStudentId(t, r) == <<t, r>>

\* new Date().toISOString()
getCurrentISODate(t) == <<t>>

isValidStudentId(id) == id # <<>>

---------------------------------------------------------------------------
(* server.js: the collection *)

Str_Sonia == <<"S","o","n","i","a">>

Str_Antoine == <<"A","n","t","o","i","n","e">>

Str_Alice == <<"A","l","i","c","e">>

Str_Sophie == <<"S","o","p","h","i","e">>

Str_Bernard == <<"B","e","r","n","a","r","d">>

Date_2019_05_14 == <<"2","0","1","9","-","0","5","-","1","4">>

Date_2000_12_05 == <<"2","0","0","0","-","1","2","-","0","5">>

Date_1990_09_14 == <<"1","9","9","0","-","0","9","-","1","4">>

Date_2001_10_02 == <<"2","0","0","1","-","1","0","-","0","2">>

Date_1980_08_21 == <<"1","9","8","0","-","0","8","-","2","1">>

Seeded(n, name, birth) ==
    [id |-> <<n>>, name |-> name, birth |-> birth,
     createdAt |-> Undefined, updatedAt |-> Undefined]

\* let students = [ ... ]
SeedStudents ==
    << Seeded(1, Str_Sonia, Date_2019_05_14),
       Seeded(2, Str_Antoine, Date_2000_12_05),
       Seeded(3, Str_Alice, Date_1990_09_14),
       Seeded(4, Str_Sophie, Date_2001_10_02),
       Seeded(5, Str_Bernard, Date_1980_08_21) >>

\* students.findIndex(s => s.id === studentId); 0 stands for -1
findIndexById(list, id) ==
    IF \E i \in 1..Len(list) : list[i].id = id
    THEN CHOOSE i \in 1..Len(list) :
            /\ list[i].id = id
            /\ \A j \in 1..(i - 1) : list[j].id # id
    ELSE 0

\* the duplicate check without .toLowerCase()
nameExistsCaseSensitive(list, name) ==
    \E i \in 1..Len(list) : list[i].name = name

\* students.find(s => s.name.toLowerCase() === name.toLowerCase())
nameExists(list, name) ==
    \E i \in 1..Len(list) : toLowerCase(list[i].name) = toLowerCase(name)

\* students.find(s => s.name.toLowerCase() === name.toLowerCase()
\*                     && s.id !== studentId)
nameExistsElsewhere(list, name, id) ==
    \E i \in 1..Len(list) :
        /\ toLowerCase(list[i].name) = toLowerCase(name)
        /\ list[i].id # id

\* name.trim() on a value that has no trim method: a TypeError
nameThrows(name) == truthy(name) /\ ~ isString(name)

\* validateStudentData: whether it threw (in name.trim(), or else in
\* isValidBirthDate(birth)), the errors it collected, in order, and how
\* many times it read the clock.  clk: the readings of the clock the
\* request takes, in order.
validateStudentData(name, birth, clk) ==
    IF nameThrows(name) \/ birthThrows(birth)
    THEN [threw |-> TRUE, errors |-> <<>>, reads |-> 0]
    ELSE [threw |-> FALSE,
          errors |->
            (IF ~ truthy(name) \/ trim(name) = <<>> THEN <<"nameRequired">>
             ELSE IF ~ isValidName(name) THEN <<"nameInvalid">>
             ELSE <<>>)
            \o
            (IF ~ truthy(birth) THEN <<"birthRequired">>
             ELSE IF ~ isValidBirthDate(birth, clk[1], clk[2])
                  THEN <<"birthInvalid">>
             ELSE <<>>),
          reads |-> IF ~ truthy(birth) THEN 0
                    ELSE birthDateReads(birth, clk[1])]

\* const newStudent = { id, name, birth, createdAt }
newStudent(name, birth, tId, tAt, r) ==
    [id |-> generateStudentId(tId, r), name |-> name, birth |-> birth,
     createdAt |-> getCurrentISODate(tAt), updatedAt |-> Undefined]

\* the updated record built without the spread of the old one
updatedStudentNoSpread(old, name, birth, t) ==
    [id |-> old.id, name |-> name, birth |-> birth,
     createdAt |-> Undefined, updatedAt |-> getCurrentISODate(t)]

\* { ...students[studentIndex], name, birth, updatedAt }
updatedStudent(old, name, birth, t) ==
    [old EXCEPT !.name = name, !.birth = birth,
                !.updatedAt = getCurrentISODate(t)]

\* students.splice(studentIndex): without a count, removes to the end
spliceToEnd(list, i) == SubSeq(list, 1, i - 1)

\* students.splice(studentIndex, 1)
splice(list, i) == SubSeq(list, 1, i - 1) \o SubSeq(list, i + 1, Len(list))

\* what a request was (clk: the clock readings it took, r: its random
\* draw) and how it ended
Request(op, id, name, birth, clk, r, outcome, errors) ==
    [op |-> op, id |-> id, name |-> name, birth |-> birth, clk |-> clk,
     r |-> r, outcome |-> outcome, errors |-> errors]

NoRequest == Request("none", <<>>, <<>>, <<>>, <<>>, 0, "none", <<>>)

---------------------------------------------------------------------------
(* server.js: the handlers, each with the validateStudentData middleware
   that runs before it.  reads: how many readings of clk the request took. *)

Result(list, outcome, errors, reads) ==
    [students |-> list, outcome |-> outcome, errors |-> errors,
     reads |-> reads]

\* what the error-handling middleware answers to a throw (status 500), or
\* validateStudentData to a non-empty list of errors (status 400)
Rejected(list, v) ==
    IF v.threw THEN Result(list, "InternalError", <<>>, v.reads)
    ELSE Result(list, "ValidationFailure", v.errors, v.reads)

\* encodeURIComponent(message) throws a URIError: the message holds a
\* surrogate that is not half of a pair
encodeThrows(name) == \E i \in 1..Len(name) : name[i] = Surrogate

\* redirectWithMessage with a message that quotes name, after the handler
\* has changed the collection to list: the redirect, or, when the encoding
\* throws, the answer of the error-handling middleware (status 500)
Redirected(list, name, reads) ==
    Result(list, IF encodeThrows(name) THEN "InternalError" ELSE "Ok",
           <<>>, reads)

\* the add handler with req.body.name left as it was received
addStudentUnsanitized(list, name, birth, clk, r) ==
    LET v == validateStudentData(name, birth, clk)
    IN  IF v.threw \/ v.errors # <<>> THEN Rejected(list, v)
        ELSE IF nameExists(list, name)
             THEN Result(list, "DuplicateName", <<>>, 2)
        ELSE Redirected(Append(list,
                               newStudent(name, birth, clk[3], clk[4], r)),
                        name, 4)

\* the update handler without the studentIndex === -1 test: the write to
\* students[-1] leaves the elements as they are and the request succeeds
updateStudentNoFoundCheck(list, id, name, birth, clk) ==
    LET v     == validateStudentData(name, birth, clk)
        clean == sanitizeName(name)
        idx   == findIndexById(list, id)
    IN  IF v.threw \/ v.errors # <<>> THEN Rejected(list, v)
        ELSE IF ~ isValidStudentId(id) THEN Result(list, "InvalidId", <<>>, 2)
        ELSE IF nameExistsElsewhere(list, clean, id)
             THEN Result(list, "DuplicateName", <<>>, 2)
        ELSE IF idx = 0 THEN Redirected(list, clean, 3)
        ELSE Redirected([list EXCEPT ![idx] =
                            updatedStudent(list[idx], clean, birth, clk[3])],
                        clean, 3)

\* app.post('/add-student', validateStudentData, ...); clk: the readings
\* for today, minDate, Date.now() and createdAt
addStudent(list, name, birth, clk, r) ==
    LET v     == validateStudentData(name, birth, clk)
        clean == sanitizeName(name)
    IN  IF v.threw \/ v.errors # <<>> THEN Rejected(list, v)
        ELSE IF nameExists(list, clean)
             THEN Result(list, "DuplicateName", <<>>, 2)
        ELSE Redirected(Append(list,
                               newStudent(clean, birth, clk[3], clk[4], r)),
                        clean, 4)

\* app.post('/update/:id', validateStudentData, ...); clk: the readings
\* for today, minDate and updatedAt
updateStudent(list, id, name, birth, clk) ==
    LET v     == validateStudentData(name, birth, clk)
        clean == sanitizeName(name)
        idx   == findIndexById(list, id)
    IN  IF v.threw \/ v.errors # <<>> THEN Rejected(list, v)
        ELSE IF ~ isValidStudentId(id) THEN Result(list, "InvalidId", <<>>, 2)
        ELSE IF idx = 0 THEN Result(list, "NotFound", <<>>, 2)
        ELSE IF nameExistsElsewhere(list, clean, id)
             THEN Result(list, "DuplicateName", <<>>, 2)
        ELSE Redirected([list EXCEPT ![idx] =
                            updatedStudent(list[idx], clean, birth, clk[3])],
                        clean, 3)

\* app.post('/delete/:id', ...)
deleteStudent(list, id) ==
    LET idx == findIndexById(list, id)
    IN  IF ~ isValidStudentId(id) THEN Result(list, "InvalidId", <<>>, 0)
        ELSE IF idx = 0 THEN Result(list, "NotFound", <<>>, 0)
        ELSE Redirected(splice(list, idx), list[idx].name, 0)

---------------------------------------------------------------------------
(* Request inputs *)

In_alice == <<"a","l","i","c","e">>

In_Bob == <<"B","o","b">>

\* a leading blank, an inner run of a no-break space and a tab, and a
\* trailing line feed
In_Zoe == <<" ","Z","o","U+00A0","\t","e","\n">>

\* "B\ud800" of a JSON body: a valid name that cannot be URI-encoded
In_Surrogate == <<"B", Surrogate>>

\* the number 123 of a JSON body
In_Number == <<"#number","1","2","3">>

In_Empty == <<>>

In_Blank == <<" ">>

In_Short == <<"x">>

In_Tag == <<"A","<","b">>

In_Long == Repeat("a", MaxNameLen + 1)

ValidNames == {In_alice, In_Bob, In_Zoe, In_Surrogate}

InvalidNames == {In_Empty, In_Blank, In_Short, In_Tag, In_Long}

Date_BadFormat == <<"2","0","0","1","-","1","-","0","2">>

Date_BadMonth == <<"2","0","0","1","-","1","3","-","0","2">>

Date_Future == <<"2","9","9","9","-","0","1","-","0","1">>

Date_TooOld == <<"1","8","0","0","-","0","1","-","0","1">>

\* 150 years before Today to the day: accepted at midnight sharp (now = 0),
\* refused once the clock has advanced
Date_1876_10_29 == <<"1","8","7","6","-","1","0","-","2","9">>

\* the array ["2001-10-02"] of a JSON body
Date_Array == <<"#array">> \o Date_2001_10_02

\* the object {"toString": 1} of a JSON body
Date_Object == <<"#object">>

ValidBirths == {Date_2001_10_02}

InvalidBirths ==
    {<<>>, Date_BadFormat, Date_BadMonth, Date_Future, Date_TooOld}

\* req.body: the <<name, birth>> pairs a request may carry: every valid
\* pair, every invalid value beside a valid one, one pair of two invalid
\* values, the birth whose validity depends on the clock, and a name and
\* a birth that are not strings
BodyInputs ==
    (ValidNames \X ValidBirths)
    \cup (InvalidNames \X {Date_2001_10_02})
    \cup ({In_Bob} \X InvalidBirths)
    \cup {<<In_Tag, Date_Future>>, <<In_Bob, Date_1876_10_29>>,
          <<In_Number, Date_2001_10_02>>, <<In_Bob, Date_Array>>,
          <<In_Bob, Date_Object>>}

UnknownId == <<999>>

\* req.params.id: the id of the first seeded record, of the seeded Alice,
\* of a record Add created, or of no record
IdInputs(list) ==
    {list[i].id : i \in {j \in 1..Len(list) : Len(list[j].id) > 1}}
    \cup {<<1>>, <<3>>, UnknownId}

Rands == 0..(MaxRand - 1)

\* the n readings a request takes of a clock that last read t0: each is
\* at least the one before
RECURSIVE Readings(_, _)
Readings(t0, n) ==
    IF n = 0 THEN {<<>>}
    ELSE UNION {{<<t>> \o rest : rest \in Readings(t, n - 1)} :
                    t \in t0..MaxTick}

---------------------------------------------------------------------------
(* The state machine *)

Init ==
    /\ students = SeedStudents
    /\ now = 0
    /\ nreq = 0
    /\ last = NoRequest
    /\ prev = SeedStudents
    /\ issued = <<>>
    /\ sanIn = <<>>
    /\ sanOut = <<>>
    /\ sanPc = "idle"

\* the reading the request took last
lastReading(clk, reads) == IF reads = 0 THEN now ELSE clk[reads]

\* A reading of clk the request did not take stands for nothing: it is
\* given the value of the last one taken.  An Add that pushed a record has
\* drawn an id, whatever it answered.
Handled(op, id, name, birth, clk, r, res) ==
    /\ \A i \in 1..Len(clk) :
          i > res.reads => clk[i] = lastReading(clk, res.reads)
    /\ students' = res.students
    /\ prev' = students
    /\ last' = Request(op, id, name, birth, clk,
                       IF op = "add" /\ Len(res.students) > Len(students)
                       THEN r ELSE 0,
                       res.outcome, res.errors)
    /\ issued' = IF op = "add" /\ Len(res.students) > Len(students)
                 THEN Append(issued, res.students[Len(res.students)].id)
                 ELSE issued
    /\ now' = lastReading(clk, res.reads)
    /\ nreq' = nreq + 1
    /\ UNCHANGED sanVars

Add ==
    /\ nreq < MaxRequests
    /\ \E body \in BodyInputs, clk \in Readings(now, 4), r \in Rands :
          \E res \in {addStudent(students, body[1], body[2], clk, r)} :
              Handled("add", <<>>, body[1], body[2], clk, r, res)

Update ==
    /\ nreq < MaxRequests
    /\ \E id \in IdInputs(students), body \in BodyInputs,
          clk \in Readings(now, 3) :
          \E res \in {updateStudent(students, id, body[1], body[2], clk)} :
              Handled("update", id, body[1], body[2], clk, 0, res)

Delete ==
    /\ nreq < MaxRequests
    /\ \E id \in IdInputs(students) :
          \E res \in {deleteStudent(students, id)} :
              Handled("delete", id, <<>>, <<>>, <<>>, 0, res)

Next == Add \/ Update \/ Delete

Spec == Init /\ [][Next]_vars

---------------------------------------------------------------------------
(* Runs of sanitizeName alone, on generated inputs *)

\* " A  B<script> "
In_Script == <<" ","A"," "," ","B","<","s","c","r","i","p","t",">"," ">>

\* 49 letters, a blank and two letters: the cut at 50 falls after the blank
In_Cut == Repeat("a", MaxNameLen - 1) \o <<" ","b","c">>

SanAlphabet == {" ", "\n", "U+00A0", "A", "<"}

RECURSIVE StringsUpTo(_)
StringsUpTo(n) ==
    IF n = 0 THEN {<<>>}
    ELSE LET S == StringsUpTo(n - 1)
         IN  S \cup {Append(x, c) : x \in S, c \in SanAlphabet}

SanInputs == StringsUpTo(MaxSanLen) \cup {In_Script, In_Cut, In_Zoe}

SanInit ==
    /\ students = SeedStudents
    /\ now = 0
    /\ nreq = 0
    /\ last = NoRequest
    /\ prev = SeedStudents
    /\ issued = <<>>
    /\ sanIn \in SanInputs
    /\ sanOut = <<>>
    /\ sanPc = "ready"

ApplySanitize ==
    /\ sanPc = "ready"
    /\ sanOut' = sanitizeName(sanIn)
    /\ sanPc' = "done"
    /\ UNCHANGED <<storeVars, sanIn>>

SanNext == ApplySanitize

SanSpec == SanInit /\ [][SanNext]_vars

---------------------------------------------------------------------------
(* Properties *)

Str_ASpaceB == <<"A"," ","B">>

Str_ASpaceBscript == <<"A"," ","B","s","c","r","i","p","t">>

Str_Zo_e == <<"Z","o"," ","e">>

\* clk: the clock readings of the request, the first two those of
\* isValidBirthDate
ValidBody(name, birth, clk) ==
    isValidName(name) /\ isValidBirthDate(birth, clk[1], clk[2])

\* C1: no two distinct records of the collection have names that are equal
\* after lower-casing.
C1_UniqueNames ==
    \A i, j \in 1..Len(students) :
        i # j => toLowerCase(students[i].name) # toLowerCase(students[j].name)

\* C2: no two records of the collection have the same id, and an id that
\* Add gave to a record is never given to a later record.
C2_UniqueIds ==
    /\ \A i, j \in 1..Len(students) : i # j => students[i].id # students[j].id
    /\ \A i, j \in 1..Len(issued) : i # j => issued[i] # issued[j]

\* C3: an Add or Update whose name fails isValidName or whose birth fails
\* isValidBirthDate ends in a validation failure and leaves the collection
\* exactly as it was.
C3_InvalidRejected ==
    (/\ last.op \in {"add", "update"}
     /\ ~ ValidBody(last.name, last.birth, last.clk))
    => /\ last.outcome = "ValidationFailure"
       /\ last.errors # <<>>
       /\ students = prev

\* C4: an Add with a valid name and birth whose name equals, after
\* lower-casing, the name of a record of the collection ends in
\* DuplicateName, and the collection (so its size) is unchanged.
C4_DuplicateRejected ==
    (/\ last.op = "add"
     /\ ValidBody(last.name, last.birth, last.clk)
     /\ \E i \in 1..Len(prev) :
            toLowerCase(prev[i].name) = toLowerCase(last.name))
    => /\ last.outcome = "DuplicateName"
       /\ Len(students) = Len(prev)
       /\ students = prev

C4_Witness ==
    /\ last.op = "add"
    /\ last.name = In_alice
    /\ \E i \in 1..Len(prev) : prev[i].name = Str_Alice
    /\ last.outcome = "DuplicateName"

NoRecordHasId(list, id) == \A i \in 1..Len(list) : list[i].id # id

\* C5, as stated: an Update with an id that matches no record ends in
\* NotFound and leaves every record unchanged.
C5_UnknownIdNotFound ==
    (last.op = "update" /\ NoRecordHasId(prev, last.id))
    => /\ last.outcome = "NotFound"
       /\ students = prev

\* C5, amended: an Update with an id that matches no record leaves every
\* record unchanged; it ends in NotFound when its name and birth are valid.
\* When they are not, the validation, which runs first, has answered: with
\* an internal error when it threw, that is for a name that is not a
\* string and not empty, or for a birth whose conversion to a string
\* throws; with a validation failure otherwise.
C5_UnknownIdRejected ==
    (last.op = "update" /\ NoRecordHasId(prev, last.id))
    => /\ students = prev
       /\ last.outcome = IF ValidBody(last.name, last.birth, last.clk)
                         THEN "NotFound"
                         ELSE IF \/ truthy(last.name) /\ ~ isString(last.name)
                                 \/ last.birth = Date_Object
                         THEN "InternalError"
                         ELSE "ValidationFailure"

C5_Witness ==
    /\ last.op = "update"
    /\ last.id = UnknownId
    /\ NoRecordHasId(prev, last.id)
    /\ last.outcome = "NotFound"
    /\ Len(prev) = Len(SeedStudents)

\* C6: a successful Delete(id) removes one record, whose id is id (the first
\* such record): the size decreases by one and the other records remain,
\* unmodified and in the same relative order.
C6_DeleteRemovesOne ==
    (last.op = "delete" /\ last.outcome = "Ok")
    => \E k \in 1..Len(prev) :
          /\ prev[k].id = last.id
          /\ \A i \in 1..(k - 1) : prev[i].id # last.id
          /\ Len(students) = Len(prev) - 1
          /\ \A i \in 1..(k - 1) : students[i] = prev[i]
          /\ \A i \in k..Len(students) : students[i] = prev[i + 1]

C6_Witness ==
    /\ last.op = "delete"
    /\ last.outcome = "Ok"
    /\ last.id = <<3>>
    /\ Len(prev) = Len(SeedStudents)
    /\ Len(students) = Len(SeedStudents) - 1

\* C7: a successful Update(id, name, birth) replaces only the name, the
\* birth and updatedAt of the record with that id: the record keeps its id,
\* its createdAt and its position, and every other record and the size of
\* the collection are unchanged.
C7_UpdateInPlace ==
    (last.op = "update" /\ last.outcome = "Ok")
    => /\ Len(students) = Len(prev)
       /\ \E k \in 1..Len(prev) :
            /\ prev[k].id = last.id
            /\ students[k].id = prev[k].id
            /\ students[k].createdAt = prev[k].createdAt
            /\ students[k].name = stripDangerous(collapseWhitespace(trim(last.name)))
            /\ students[k].birth = last.birth
            /\ students[k].updatedAt = <<last.clk[3]>>
            /\ \A i \in 1..Len(prev) : i # k => students[i] = prev[i]

C7_Witness ==
    /\ last.op = "update"
    /\ last.outcome = "Ok"
    /\ \E k \in 1..Len(prev) :
          /\ prev[k].id = last.id
          /\ prev[k].createdAt # Undefined
          /\ k < Len(prev)
          /\ students[k].name # prev[k].name

\* C8: a successful Add(name, birth) appends one record at the end of the
\* collection, whose name is the sanitized name (trimmed, whitespace runs
\* collapsed, dangerous characters removed), whose birth is the given birth
\* and whose id is the one generated in the request; the records present
\* before remain, unmodified and in the same order.
C8_AddAppends ==
    (last.op = "add" /\ last.outcome = "Ok")
    => /\ Len(students) = Len(prev) + 1
       /\ SubSeq(students, 1, Len(prev)) = prev
       /\ LET rec == students[Len(students)]
          IN  /\ rec.name = stripDangerous(collapseWhitespace(trim(last.name)))
              /\ Len(rec.name) <= MaxNameLen
              /\ rec.birth = last.birth
              /\ rec.id = generateStudentId(last.clk[3], last.r)
              /\ rec.id = issued[Len(issued)]
              /\ rec.createdAt = <<last.clk[4]>>
              /\ rec.updatedAt = Undefined

C8_Witness ==
    /\ last.op = "add"
    /\ last.outcome = "Ok"
    /\ last.name = In_Zoe
    /\ students[Len(students)].name = Str_Zo_e
    /\ Len(students) = Len(SeedStudents) + 1

\* C9, as stated: sanitizeName(" A  B<script> ") yields "A B".
C9_YieldsAB ==
    (sanPc = "done" /\ sanIn = In_Script) => sanOut = Str_ASpaceB

\* C9, amended: sanitizeName(" A  B<script> ") yields "A Bscript": the input
\* trimmed, its whitespace runs collapsed to single spaces and the
\* characters < > " ' & removed, the text between them kept.  No result
\* holds one of these characters or a whitespace character other than the
\* space, or is longer than 50.
C9_YieldsABscript ==
    (sanPc = "done")
    => /\ sanIn = In_Script => sanOut = Str_ASpaceBscript
       /\ \A i \in 1..Len(sanOut) :
            sanOut[i] \notin DangerousChars \cup (WhiteSpace \ {" "})
       /\ Len(sanOut) <= MaxNameLen

C9_Witness ==
    /\ sanPc = "done"
    /\ sanIn = In_Script
    /\ sanOut # <<>>

\* C10: the name of every stored record has a trimmed length between 2 and
\* 50 and holds none of the characters < > " ' &.
C10_StoredNamesValid ==
    \A i \in 1..Len(students) :
        LET t == trim(students[i].name)
        IN  /\ Len(t) >= MinNameLen
            /\ Len(t) <= MaxNameLen
            /\ \A j \in 1..Len(t) : t[j] \notin DangerousChars

C10_Witness ==
    /\ Len(students) > Len(SeedStudents)
    /\ \E i \in 1..Len(students) :
          /\ students[i].name = Str_Zo_e
          /\ students[i].updatedAt # Undefined

===========================================================================
